---- MODULE Spec2Model ----
(***************************************************************************)
(* The task store and the three JSON-RPC method handlers of A2AServer      *)
(* (server.ts): tasks/send, tasks/get and tasks/cancel.                    *)
(*                                                                         *)
(* Node runs every handler to its next await without interruption.  The    *)
(* only await inside a method handler is the call of the agent's send      *)
(* handler, so tasks/get and tasks/cancel are one step each and tasks/send *)
(* is two: handleTaskSend (up to the await) and handleTaskSendResume (the  *)
(* code after the await, once the agent's promise has settled).  Any       *)
(* number of other steps may run between the two.                          *)
(*                                                                         *)
(* Requests enter through handleRpcRequest, which parses the body, checks  *)
(* the envelope, resolves the target agent from the URL and the X-Agent-Id *)
(* header and dispatches on the method name.  What escapes it is caught by *)
(* handleRequest and answered with HTTP 500.                               *)
(***************************************************************************)
EXTENDS Integers, Sequences, FiniteSets, TLC

(***************************************************************************)
(* Bounds of the model.                                                    *)
(***************************************************************************)
\* number of JSON-RPC requests issued in one behaviour
MaxReq == 2
\* number of times the wall clock is seen to advance
MaxTime == 1
\* number of agents the registry holds
MaxAgents == 2
\* number of requests issued to one client's tasks in one conversation
MaxTurns == 3

(***************************************************************************)
(* Program constants.                                                      *)
(***************************************************************************)
INVALID_REQUEST == -32600
INVALID_PARAMS == -32602

\* PARSE_ERROR with the code of the next entry of ErrorCodes
PARSE_ERROR_swapped == INVALID_REQUEST

PARSE_ERROR == -32700

\* METHOD_NOT_FOUND with the code of the next entry of ErrorCodes
METHOD_NOT_FOUND_swapped == INVALID_PARAMS

METHOD_NOT_FOUND == -32601
INTERNAL_ERROR == -32603
TASK_NOT_CANCELABLE == -32002

\* TASK_NOT_FOUND with the code of the neighbouring entry of ErrorCodes
TASK_NOT_FOUND_swapped == TASK_NOT_CANCELABLE

TASK_NOT_FOUND == -32001

\* an absent property of an object
Missing == "undefined"

(***************************************************************************)
(* Agent descriptors, with the properties loadAgents and generateAgentCard *)
(* read.  An optional property is << >> when absent and <<v>> when it has  *)
(* the value v; a capability flag is "true", "false" or Missing; send is   *)
(* handlers.send.                                                          *)
(***************************************************************************)
NoCapabilities ==
  [streaming |-> Missing, pushNotifications |-> Missing,
   stateTransitionHistory |-> Missing]

AllFalse ==
  [streaming |-> "false", pushNotifications |-> "false",
   stateTransitionHistory |-> "false"]

\* the descriptors exported by src/agents/hello and src/agents/time
HelloAgent ==
  [id |-> "agent://hello", name |-> "Hello Agent", capabilities |-> AllFalse,
   authentication |-> << >>, skills |-> << <<"greeting">> >>,
   send |-> "function"]

TimeAgent ==
  [id |-> "agent://time", name |-> "Time Agent", capabilities |-> AllFalse,
   authentication |-> << >>, skills |-> << <<"get-time">> >>,
   send |-> "function"]

\* the agent registry after loadAgents has read the agents directory of the
\* repository, in insertion order
LoadedAgents == <<HelloAgent, TimeAgent>>

\* task ids a client may put in params.id ("" is a string that is falsy)
TaskIds == {"t1", "t2"}
ParamIds == TaskIds \cup {Missing, ""}

\* what a client may put in params.message
ParamMessages == {Missing, "hi"}

\* what a client may put in params.sessionId
ParamSessions == {"s1"}

\* the ways the promise of agent.handlers.send settles:
\*   "reply"      resolves with {message} whose parts[0] exists
\*   "replyEmpty" resolves with {message} whose parts is []
\*   "error"      resolves with {error}
\*   "throw"      rejects with an Error, or the handler throws one
\*   "throwNull"  rejects with null or undefined (throw undefined, reject())
Outcomes == {"reply", "replyEmpty", "error", "throw", "throwNull"}

\* the id of a response built with id null
NullId == 0

\* the id of a body that has no id property
NoId == -1

\* request paths as their non-empty segments: url.split('/').filter(Boolean)
Urls == {<<"rpc">>, <<"time">>, <<"nobody", "task", "1">>}

\* req.url as its tokens: the separator "/" and the text between separators
Paths ==
  {<<"/">>, <<"/", "rpc">>, <<"/", "rpc", "/">>,
   <<"/", "task">>, <<"/", "task", "/">>,
   <<"/", "x", "/", "message", "/", "1">>,
   <<"/", "conversation", "/", "1">>,
   <<"/", "hello">>, <<"/", "time", "/">>, <<"/", "nope">>,
   <<"/", ".well-known", "/", "agent.json">>}

\* url.split('/').filter(Boolean)
Segments(path) == SelectSeq(path, LAMBDA x : x # "/")

\* url.includes(part)
Includes(path, part) ==
  \E i \in 0..(Len(path) - Len(part)) :
     SubSeq(path, i + 1, i + Len(part)) = part

\* values of the X-Agent-Id header
Headers == {Missing, "agent://time", "time", "agent://nope"}

\* id.replace('agent://', '')
StripScheme(id) ==
  CASE id = "agent://hello" -> "hello"
    [] id = "agent://time" -> "time"
    [] id = "agent://nope" -> "nope"
    [] id = "agent://a" -> "a"
    [] id = "agent://b" -> "b"
    [] id = "agent://c" -> "c"
    [] OTHER -> id

States == {"submitted", "working", "input-required", "completed",
           "canceled", "failed", "unknown"}

VARIABLES
  agents,     \* this.agents: the registered descriptors, in insertion order
  tasks,      \* this.tasks: stored task id -> record
  inflight,   \* invocations of agent.handlers.send not yet settled
  response,   \* <<>> or <<r>>, r the JsonRpcResponse returned last, with its request
  nextReq,    \* the id the next request carries
  now,        \* the wall clock read by new Date()
  statusCode  \* res.statusCode of the HTTP response written last, 0 before the first

vars == <<agents, tasks, inflight, response, nextReq, now, statusCode>>

\* Object.keys(this.agents)
AgentIds == {agents[i].id : i \in 1..Len(agents)}

\* !v for a property v of the params object
Falsy(v) == v \in {Missing, ""}

\* { state, timestamp: new Date().toISOString() }
Status(state) == [state |-> state, timestamp |-> now]

createErrorResponse(id, code, message) ==
  [jsonrpc |-> "2.0", id |-> id, result |-> <<>>,
   error |-> <<[code |-> code, message |-> message]>>]

\* { jsonrpc: '2.0', id, result }
ResultResponse(id, result) ==
  [jsonrpc |-> "2.0", id |-> id, result |-> <<result>>, error |-> <<>>]

\* the response r that the handler of method returned for params
Returned(method, params, r) ==
  <<[method |-> method, params |-> params, res |-> r]>>

\* the history entry of the message a client sent in request id
Inbound(id, message) ==
  [dir |-> "inbound", exch |-> id, from |-> "client", message |-> message]

\* the history entry of response.message, returned by agent for request id
Reply(id, agent, outcome) ==
  [dir |-> "reply", exch |-> id, from |-> agent, message |-> outcome]

\* CreateIfAbsent without the test for an existing record
CreateIfAbsent_overwrite(store, taskId, agentId, sessionId) ==
  [t \in DOMAIN store \cup {taskId} |->
     IF t = taskId
       THEN [id |-> taskId, agentId |-> agentId, sessionId |-> sessionId,
             status |-> [state |-> "submitted", timestamp |-> now],
             history |-> << >>]
       ELSE store[t]]

\* CreateIfAbsent that hands an existing record to the agent of the request
CreateIfAbsent_reown(store, taskId, agentId, sessionId) ==
  IF taskId \in DOMAIN store
    THEN [store EXCEPT ![taskId].agentId = agentId]
    ELSE store @@ (taskId :> [id |-> taskId, agentId |-> agentId,
                              sessionId |-> sessionId,
                              status |-> [state |-> "submitted", timestamp |-> now],
                              history |-> << >>])

\* if (!this.tasks[taskId]) this.tasks[taskId] = { id, agentId, sessionId, status, history: [] }
CreateIfAbsent(store, taskId, agentId, sessionId) ==
  IF taskId \in DOMAIN store
    THEN store
    ELSE store @@ (taskId :> [id |-> taskId, agentId |-> agentId,
                              sessionId |-> sessionId,
                              status |-> Status("submitted"),
                              history |-> << >>])

\* SetStatus that stamps every stored task
SetStatus_all(store, taskId, state) ==
  [t \in DOMAIN store |-> [store[t] EXCEPT !.status = Status(state)]]

\* this.tasks[taskId].status = { state, timestamp }
SetStatus(store, taskId, state) ==
  [store EXCEPT ![taskId].status = Status(state)]

\* PushHistory with unshift in place of push
PushHistory_unshift(store, taskId, entry) ==
  [store EXCEPT ![taskId].history = <<entry>> \o @]

\* PushHistory in which an inbound message that arrives while the newest
\* entry is an unanswered inbound message takes that entry's place
PushHistory_lossy(store, taskId, entry) ==
  [store EXCEPT ![taskId].history =
     IF Len(@) > 0 /\ @[Len(@)].dir = "inbound" /\ entry.dir = "inbound"
       THEN [@ EXCEPT ![Len(@)] = entry]
       ELSE Append(@, entry)]

\* this.tasks[taskId].history.push(entry)
PushHistory(store, taskId, entry) ==
  [store EXCEPT ![taskId].history = Append(@, entry)]

\* cancelableStates that also lists completed
cancelableStates_completed == {"submitted", "working", "completed"}

cancelableStates == {"submitted", "working"}

\* Canceled with the state literal of the failure branch
Canceled_failed(store, taskId) ==
  [store EXCEPT ![taskId].status = [state |-> "failed", timestamp |-> now]]

\* task.status = { state: 'canceled', timestamp }
Canceled(store, taskId) == SetStatus(store, taskId, "canceled")

Init ==
  /\ agents = LoadedAgents
  /\ tasks = << >>
  /\ inflight = {}
  /\ response = << >>
  /\ nextReq = 1
  /\ now = 0
  /\ statusCode = 0

\* time passes between two steps
Tick ==
  /\ now < MaxTime
  /\ now' = now + 1
  /\ UNCHANGED <<agents, tasks, inflight, response, nextReq, statusCode>>

\* handleTaskGet as get-or-create: an unknown id is stored before the lookup
handleTaskGet_create(id, params) ==
  /\ tasks' = IF Falsy(params.id) \/ params.id \in DOMAIN tasks
                THEN tasks
                ELSE tasks @@ (params.id :>
                       [id |-> params.id, agentId |-> agents[1].id,
                        sessionId |-> Missing,
                        status |-> Status("unknown"), history |-> << >>])
  /\ response' = Returned("tasks/get", params,
       IF Falsy(params.id)
         THEN createErrorResponse(id, INVALID_PARAMS, "Missing task ID")
       ELSE IF params.id \notin DOMAIN tasks
         THEN createErrorResponse(id, TASK_NOT_FOUND, "Task not found")
       ELSE ResultResponse(id, tasks[params.id]))
  /\ nextReq' = nextReq + 1
  /\ UNCHANGED <<inflight, now>>

\* handleTaskGet whose history reset lost its test: task.history = []
handleTaskGet_reset(id, params) ==
  /\ tasks' = IF Falsy(params.id) \/ params.id \notin DOMAIN tasks
                THEN tasks
                ELSE [tasks EXCEPT ![params.id].history = << >>]
  /\ response' = Returned("tasks/get", params,
       IF Falsy(params.id)
         THEN createErrorResponse(id, INVALID_PARAMS, "Missing task ID")
       ELSE IF params.id \notin DOMAIN tasks
         THEN createErrorResponse(id, TASK_NOT_FOUND, "Task not found")
       ELSE ResultResponse(id, tasks'[params.id]))
  /\ nextReq' = nextReq + 1
  /\ UNCHANGED <<inflight, now>>

(***************************************************************************)
(* tasks/get.  The branch that gives a record without a history an empty   *)
(* one never runs: every record is created with history: [] and nothing    *)
(* removes the property.                                                   *)
(***************************************************************************)
handleTaskGet(id, params) ==
  /\ response' = Returned("tasks/get", params,
       IF Falsy(params.id)
         THEN createErrorResponse(id, INVALID_PARAMS, "Missing task ID")
       ELSE IF params.id \notin DOMAIN tasks
         THEN createErrorResponse(id, TASK_NOT_FOUND, "Task not found")
       ELSE ResultResponse(id, tasks[params.id]))
  /\ nextReq' = nextReq + 1
  /\ UNCHANGED <<tasks, inflight, now>>

(***************************************************************************)
(* tasks/cancel.                                                           *)
(***************************************************************************)
handleTaskCancel(id, params) ==
  /\ IF Falsy(params.id)
       THEN /\ response' = Returned("tasks/cancel", params,
                 createErrorResponse(id, INVALID_PARAMS, "Missing task ID"))
            /\ UNCHANGED tasks
     ELSE IF params.id \notin DOMAIN tasks
       THEN /\ response' = Returned("tasks/cancel", params,
                 createErrorResponse(id, TASK_NOT_FOUND, "Task not found"))
            /\ UNCHANGED tasks
     ELSE IF tasks[params.id].status.state \notin cancelableStates
       THEN /\ response' = Returned("tasks/cancel", params,
                 createErrorResponse(id, TASK_NOT_CANCELABLE,
                                     "Task cannot be canceled"))
            /\ UNCHANGED tasks
     ELSE /\ tasks' = Canceled(tasks, params.id)
          /\ response' = Returned("tasks/cancel", params,
               ResultResponse(id, tasks'[params.id]))
  /\ nextReq' = nextReq + 1
  /\ UNCHANGED <<inflight, now>>

\* handleTaskSend that validates params.id only
handleTaskSend_idOnly(id, agent, params) ==
  /\ IF Falsy(params.id)
       THEN /\ response' = Returned("tasks/send", params,
                 createErrorResponse(id, INVALID_PARAMS,
                                     "Missing required parameters"))
            /\ UNCHANGED <<tasks, inflight>>
       ELSE /\ tasks' = PushHistory(
                          SetStatus(
                            CreateIfAbsent(tasks, params.id, agent,
                                           params.sessionId),
                            params.id, "working"),
                          params.id, Inbound(id, params.message))
            /\ inflight' = inflight \cup
                            {[id |-> id, agent |-> agent, params |-> params]}
            /\ UNCHANGED response
  /\ nextReq' = nextReq + 1
  /\ UNCHANGED now

\* handleTaskSend that awaits the handler before it sets the state to working
handleTaskSend_awaitFirst(id, agent, params) ==
  /\ IF Falsy(params.id) \/ Falsy(params.message)
       THEN /\ response' = Returned("tasks/send", params,
                 createErrorResponse(id, INVALID_PARAMS,
                                     "Missing required parameters"))
            /\ UNCHANGED <<tasks, inflight>>
       ELSE /\ tasks' = PushHistory(
                          CreateIfAbsent(tasks, params.id, agent,
                                         params.sessionId),
                          params.id, Inbound(id, params.message))
            /\ inflight' = inflight \cup
                            {[id |-> id, agent |-> agent, params |-> params]}
            /\ UNCHANGED response
  /\ nextReq' = nextReq + 1
  /\ UNCHANGED now

\* handleTaskSend that refuses a task whose state is terminal
handleTaskSend_activeOnly(id, agent, params) ==
  /\ IF \/ Falsy(params.id) \/ Falsy(params.message)
        \/ /\ params.id \in DOMAIN tasks
           /\ tasks[params.id].status.state \in {"completed", "failed", "canceled"}
       THEN /\ response' = Returned("tasks/send", params,
                 createErrorResponse(id, INVALID_PARAMS,
                                     "Missing required parameters"))
            /\ UNCHANGED <<tasks, inflight>>
       ELSE /\ tasks' = PushHistory(
                          SetStatus(
                            CreateIfAbsent(tasks, params.id, agent,
                                           params.sessionId),
                            params.id, "working"),
                          params.id, Inbound(id, params.message))
            /\ inflight' = inflight \cup
                            {[id |-> id, agent |-> agent, params |-> params]}
            /\ UNCHANGED response
  /\ nextReq' = nextReq + 1
  /\ UNCHANGED now

(***************************************************************************)
(* tasks/send up to the await: validate, create the record if the id is    *)
(* unseen, set the state to working, push the inbound message and call     *)
(* the agent's send handler.  An absent params object is a params object   *)
(* without properties.                                                     *)
(***************************************************************************)
handleTaskSend(id, agent, params) ==
  /\ IF Falsy(params.id) \/ Falsy(params.message)
       THEN /\ response' = Returned("tasks/send", params,
                 createErrorResponse(id, INVALID_PARAMS,
                                     "Missing required parameters"))
            /\ UNCHANGED <<tasks, inflight>>
       ELSE /\ tasks' = PushHistory(
                          SetStatus(
                            CreateIfAbsent(tasks, params.id, agent,
                                           params.sessionId),
                            params.id, "working"),
                          params.id, Inbound(id, params.message))
            /\ inflight' = inflight \cup
                            {[id |-> id, agent |-> agent, params |-> params]}
            /\ UNCHANGED response
  /\ nextReq' = nextReq + 1
  /\ UNCHANGED now

\* Failed that puts the task back to working
Failed_working(store, taskId) == SetStatus(store, taskId, "working")

\* Failed that leaves the status as it is
Failed_unset(store, taskId) == store

\* the error case: this.tasks[taskId].status = { state: 'failed', timestamp }
Failed(store, taskId) == SetStatus(store, taskId, "failed")

\* the body handleRequest writes for what it caught: { error: { code, message } }
InternalServerError ==
  [jsonrpc |-> Missing, id |-> NoId, result |-> << >>,
   error |-> <<[code |-> INTERNAL_ERROR, message |-> "Internal Server Error"]>>]

\* the result of a tasks/send whose handler replied
SendResult(store, taskId) ==
  [id |-> taskId,
   status |-> store[taskId].status,
   history |-> store[taskId].history,
   artifacts |-> <<[parts |-> <<[type |-> "text"]>>]>>]

\* Completed after a call of the handler of the agent that owns the task
Completed_byOwner(store, inv, outcome) ==
  PushHistory(SetStatus(store, inv.params.id, "completed"),
              inv.params.id,
              Reply(inv.id, store[inv.params.id].agentId, outcome))

\* Completed that writes the reply over the newest history entry
Completed_replace(store, inv, outcome) ==
  [SetStatus(store, inv.params.id, "completed")
     EXCEPT ![inv.params.id].history =
              [@ EXCEPT ![Len(@)] = Reply(inv.id, inv.agent, outcome)]]

\* the store after the success case: state completed, reply pushed
Completed(store, inv, outcome) ==
  PushHistory(SetStatus(store, inv.params.id, "completed"),
              inv.params.id, Reply(inv.id, inv.agent, outcome))

(***************************************************************************)
(* tasks/send after the await, for the invocation inv whose promise        *)
(* settled as outcome.  A reply whose parts is empty makes                 *)
(* response.message.parts[0].text throw after the state was set to         *)
(* completed and the reply was pushed; the catch block then sets failed.   *)
(* A promise that resolves with a value that is not an object makes        *)
(* 'message' in response throw and is covered by "throw".  When the        *)
(* handler rejects with null or undefined, (error as Error).message throws *)
(* inside the catch block after the state was set to failed: the call      *)
(* rejects, handleRpcRequest rejects, and handleRequest answers 500.       *)
(* Otherwise handleRpcRequest writes the response with status 200.         *)
\* handleTaskSendResume whose call stays pending after it has settled
handleTaskSendResume_pending(inv, outcome) ==
  /\ inv \in inflight
  /\ inflight' = inflight
  /\ CASE outcome = "reply" ->
            /\ tasks' = Completed(tasks, inv, outcome)
            /\ response' = Returned("tasks/send", inv.params,
                 ResultResponse(inv.id, SendResult(tasks', inv.params.id)))
       [] outcome = "replyEmpty" ->
            /\ tasks' = SetStatus(Completed(tasks, inv, outcome),
                                  inv.params.id, "failed")
            /\ response' = Returned("tasks/send", inv.params,
                 createErrorResponse(inv.id, INTERNAL_ERROR,
                                     "Internal error: TypeError"))
       [] outcome = "error" ->
            /\ tasks' = Failed(tasks, inv.params.id)
            /\ response' = Returned("tasks/send", inv.params,
                 createErrorResponse(inv.id, INTERNAL_ERROR, "response.error"))
       [] outcome = "throw" ->
            /\ tasks' = SetStatus(tasks, inv.params.id, "failed")
            /\ response' = Returned("tasks/send", inv.params,
                 createErrorResponse(inv.id, INTERNAL_ERROR,
                                     "Internal error: error.message"))
       [] outcome = "throwNull" ->
            /\ tasks' = SetStatus(tasks, inv.params.id, "failed")
            /\ response' = Returned("tasks/send", inv.params,
                                    InternalServerError)
  /\ statusCode' = IF outcome = "throwNull" THEN 500 ELSE 200
  /\ UNCHANGED <<agents, nextReq, now>>

\* handleTaskSendResume behind a queue per task: the oldest call of a task
\* settles first
handleTaskSendResume_fifo(inv, outcome) ==
  /\ \A other \in inflight :
       other.params.id = inv.params.id => other.id >= inv.id
  /\ inv \in inflight
  /\ inflight' = inflight \ {inv}
  /\ CASE outcome = "reply" ->
            /\ tasks' = Completed(tasks, inv, outcome)
            /\ response' = Returned("tasks/send", inv.params,
                 ResultResponse(inv.id, SendResult(tasks', inv.params.id)))
       [] outcome = "replyEmpty" ->
            /\ tasks' = SetStatus(Completed(tasks, inv, outcome),
                                  inv.params.id, "failed")
            /\ response' = Returned("tasks/send", inv.params,
                 createErrorResponse(inv.id, INTERNAL_ERROR,
                                     "Internal error: TypeError"))
       [] outcome = "error" ->
            /\ tasks' = Failed(tasks, inv.params.id)
            /\ response' = Returned("tasks/send", inv.params,
                 createErrorResponse(inv.id, INTERNAL_ERROR, "response.error"))
       [] outcome = "throw" ->
            /\ tasks' = SetStatus(tasks, inv.params.id, "failed")
            /\ response' = Returned("tasks/send", inv.params,
                 createErrorResponse(inv.id, INTERNAL_ERROR,
                                     "Internal error: error.message"))
       [] outcome = "throwNull" ->
            /\ tasks' = SetStatus(tasks, inv.params.id, "failed")
            /\ response' = Returned("tasks/send", inv.params,
                                    InternalServerError)
  /\ statusCode' = IF outcome = "throwNull" THEN 500 ELSE 200
  /\ UNCHANGED <<agents, nextReq, now>>

(***************************************************************************)
handleTaskSendResume(inv, outcome) ==
  /\ inv \in inflight
  /\ inflight' = inflight \ {inv}
  /\ CASE outcome = "reply" ->
            /\ tasks' = Completed(tasks, inv, outcome)
            /\ response' = Returned("tasks/send", inv.params,
                 ResultResponse(inv.id, SendResult(tasks', inv.params.id)))
       [] outcome = "replyEmpty" ->
            /\ tasks' = SetStatus(Completed(tasks, inv, outcome),
                                  inv.params.id, "failed")
            /\ response' = Returned("tasks/send", inv.params,
                 createErrorResponse(inv.id, INTERNAL_ERROR,
                                     "Internal error: TypeError"))
       [] outcome = "error" ->
            /\ tasks' = Failed(tasks, inv.params.id)
            /\ response' = Returned("tasks/send", inv.params,
                 createErrorResponse(inv.id, INTERNAL_ERROR, "response.error"))
       [] outcome = "throw" ->
            /\ tasks' = SetStatus(tasks, inv.params.id, "failed")
            /\ response' = Returned("tasks/send", inv.params,
                 createErrorResponse(inv.id, INTERNAL_ERROR,
                                     "Internal error: error.message"))
       [] outcome = "throwNull" ->
            /\ tasks' = SetStatus(tasks, inv.params.id, "failed")
            /\ response' = Returned("tasks/send", inv.params,
                                    InternalServerError)
  /\ statusCode' = IF outcome = "throwNull" THEN 500 ELSE 200
  /\ UNCHANGED <<agents, nextReq, now>>

GetParams == [id : ParamIds]

SendParams == [id : ParamIds, message : ParamMessages, sessionId : ParamSessions]

\* the params of a body that has none
NoParams == [id |-> Missing]

\* a body that JSON.parse rejects, the body null, and envelopes
Bodies ==
  {[json |-> j, jsonrpc |-> Missing, method |-> Missing, params |-> NoParams] :
     j \in {"malformed", "null"}}
  \cup {[json |-> "object", jsonrpc |-> "1.0", method |-> "tasks/send",
         params |-> [id |-> "t1", message |-> "hi", sessionId |-> "s1"]]}
  \cup {[json |-> "object", jsonrpc |-> "2.0", method |-> m, params |-> NoParams] :
         m \in {Missing, "foo"}}
  \cup {[json |-> "object", jsonrpc |-> "2.0", method |-> m, params |-> p] :
         m \in {"tasks/get", "tasks/cancel"}, p \in GetParams}
  \cup {[json |-> "object", jsonrpc |-> "2.0", method |-> "tasks/send",
         params |-> p] : p \in SendParams}

\* the bodies that are combined with every URL and every header
RoutedBodies ==
  {[json |-> "malformed", jsonrpc |-> Missing, method |-> Missing,
    params |-> NoParams],
   [json |-> "object", jsonrpc |-> "2.0", method |-> "foo", params |-> NoParams]}
  \cup {[json |-> "object", jsonrpc |-> "2.0", method |-> "tasks/send",
         params |-> [id |-> t, message |-> "hi", sessionId |-> s]] :
         t \in TaskIds, s \in ParamSessions}

\* the POST requests of the model; agentId is req.headers['x-agent-id']
Requests ==
  {[url |-> <<"rpc">>, agentId |-> Missing, body |-> b] : b \in Bodies}
  \cup {[url |-> u, agentId |-> h, body |-> b] :
         u \in Urls, h \in Headers, b \in RoutedBodies}

\* the keys of the registry reg whose id without scheme is the first path
\* segment
MatchingAgents(reg, url) ==
  {i \in 1..Len(reg) : Len(url) > 0 /\ StripScheme(reg[i].id) = url[1]}

isAgentEndpoint(reg, url) == MatchingAgents(reg, url) # {}

\* the test of handleRequest for a POST that is an RPC call
IsRpcUrl(reg, url) ==
  \/ url = <<"rpc">>
  \/ \E i \in 1..(Len(url) - 1) : url[i] \in {"task", "message", "conversation"}
  \/ isAgentEndpoint(reg, url)

\* Object.keys(this.agents).find(...), or Missing
extractedAgentId(reg, url) ==
  IF isAgentEndpoint(reg, url)
    THEN reg[CHOOSE i \in MatchingAgents(reg, url) :
                 \A j \in MatchingAgents(reg, url) : i <= j].id
    ELSE Missing

\* extractedAgentId || headerAgentId || Object.keys(this.agents)[0]
ResolveAgentId(reg, url, headerAgentId) ==
  IF extractedAgentId(reg, url) # Missing THEN extractedAgentId(reg, url)
  ELSE IF ~Falsy(headerAgentId) THEN headerAgentId
  ELSE IF Len(reg) > 0 THEN reg[1].id
  ELSE Missing

\* ResolveAgent that takes the caller's word when nothing is registered
ResolveAgent_trusting(reg, agentId) ==
  IF \E i \in 1..Len(reg) : reg[i].id = agentId THEN agentId
  ELSE IF Len(reg) > 0 THEN reg[1].id
  ELSE agentId

\* ResolveAgent without the fallback to the first agent
ResolveAgent_strict(reg, agentId) ==
  IF \E i \in 1..Len(reg) : reg[i].id = agentId THEN agentId
  ELSE Missing

\* this.agents[agentId] || Object.values(this.agents)[0], or Missing
ResolveAgent(reg, agentId) ==
  IF \E i \in 1..Len(reg) : reg[i].id = agentId THEN agentId
  ELSE IF Len(reg) > 0 THEN reg[1].id
  ELSE Missing

\* the registries a server that answers RPC calls is started with
Registries == {<< >>, LoadedAgents}

\* lines 219-255 for every registry, URL and header of the model, computed
\* once: agentId is the identifier looked up, agent the agent that is used
Resolution ==
  [reg \in Registries |->
     [u \in Urls \cup {Segments(p) : p \in Paths}, h \in Headers |->
        [agentId |-> ResolveAgentId(reg, u, h),
         agent |-> ResolveAgent(reg, ResolveAgentId(reg, u, h))]]]

\* !(rpcRequest.jsonrpc !== '2.0' || !rpcRequest.method)
ValidEnvelope(body) == body.jsonrpc = "2.0" /\ ~Falsy(body.method)

(***************************************************************************)
(* handleRpcRequest for the request req whose envelope carries id, up to   *)
(* the first await of a method handler.                                    *)
(***************************************************************************)
handleRpcRequest(id, req) ==
  LET body == req.body
      agentId == Resolution[agents][req.url, req.agentId].agentId
      agent == Resolution[agents][req.url, req.agentId].agent
      Refuse(r, code) ==
        /\ response' = Returned(body.method, body.params, r)
        /\ statusCode' = code
        /\ nextReq' = nextReq + 1
        /\ UNCHANGED <<tasks, inflight, now>>
  IN
  /\ UNCHANGED agents
  /\ IF body.json = "malformed"
       THEN Refuse(createErrorResponse(NullId, PARSE_ERROR,
                                       "Invalid JSON payload"), 400)
     ELSE IF body.json = "null"
       THEN Refuse(InternalServerError, 500)
     ELSE IF ~ValidEnvelope(body)
       THEN Refuse(createErrorResponse(id, INVALID_REQUEST,
                                       "Request payload validation error"), 400)
     ELSE IF agentId = Missing
       THEN Refuse(createErrorResponse(id, METHOD_NOT_FOUND,
                                       "No agents available"), 404)
     ELSE IF agent = Missing
       THEN Refuse(createErrorResponse(id, METHOD_NOT_FOUND,
                                       "Agent not found"), 404)
     ELSE IF body.method = "tasks/send"
       THEN /\ handleTaskSend(id, agent, body.params)
            /\ statusCode' = IF Falsy(body.params.id) \/ Falsy(body.params.message)
                               THEN 200 ELSE statusCode
     ELSE IF body.method = "tasks/get"
       THEN handleTaskGet(id, body.params) /\ statusCode' = 200
     ELSE IF body.method = "tasks/cancel"
       THEN handleTaskCancel(id, body.params) /\ statusCode' = 200
     ELSE Refuse(createErrorResponse(id, METHOD_NOT_FOUND, "Method not found"), 200)

(***************************************************************************)
(* Discovery: GET requests for an agent card.                              *)
(***************************************************************************)
\* the paths of GET requests, as segments; all contain /.well-known/agent.json
CardUrls ==
  {<<".well-known", "agent.json">>,
   <<"a", ".well-known", "agent.json">>,
   <<"b", ".well-known", "agent.json">>,
   <<"c", ".well-known", "agent.json">>,
   <<"x", "a", ".well-known", "agent.json">>}

\* this.agents[key]: << >> when reg has no such key
Lookup(reg, key) ==
  IF \E i \in 1..Len(reg) : reg[i].id = key
    THEN <<reg[CHOOSE i \in 1..Len(reg) : reg[i].id = key]>>
    ELSE << >>

\* v ?? false for a capability flag
OrFalse(v) == IF v = Missing THEN "false" ELSE v

\* the card: name as declared, url below the base address, the three flags
\* with default false, authentication with credentials null (<< >> is the
\* card's null), skills with default []
generateAgentCard(agent) ==
  [name |-> agent.name,
   url |-> <<StripScheme(agent.id)>>,
   capabilities |->
     [streaming |-> OrFalse(agent.capabilities.streaming),
      pushNotifications |-> OrFalse(agent.capabilities.pushNotifications),
      stateTransitionHistory |->
        OrFalse(agent.capabilities.stateTransitionHistory)],
   authentication |->
     IF agent.authentication # << >>
       THEN <<[schemes |-> agent.authentication[1].schemes,
               credentials |-> "null"]>>
       ELSE << >>,
   skills |-> IF agent.skills = << >> THEN << >> ELSE agent.skills[1]]

\* the body of a discovery response: a card, or { error }
CardFound(card) == [card |-> <<card>>, error |-> << >>]
CardError(message) == [card |-> << >>, error |-> <<message>>]

(***************************************************************************)
(* handleAgentCard for the path url.  The lookup by segment tries the key  *)
(* 'agent://' + segment twice and never the segment itself.                *)
(***************************************************************************)
handleAgentCard(url) ==
  LET Answer(code, body) ==
        /\ response' = Returned("GET", url, body)
        /\ statusCode' = code
      agent == Lookup(agents, "agent://" \o url[1])
  IN
  /\ IF url = <<".well-known", "agent.json">>
       THEN IF Len(agents) = 0
              THEN Answer(404, CardError("No agents found"))
              ELSE Answer(200, CardFound(generateAgentCard(agents[1])))
     ELSE IF Len(url) = 3 /\ url[2] = ".well-known" /\ url[3] = "agent.json"
       THEN IF agent = << >>
              THEN Answer(404, CardError("Agent not found"))
              ELSE Answer(200, CardFound(generateAgentCard(agent[1])))
     ELSE Answer(404, CardError("Not Found"))
  /\ UNCHANGED <<agents, tasks, inflight, nextReq, now>>

Next ==
  \/ /\ nextReq <= MaxReq
     /\ \E req \in Requests :
          IsRpcUrl(agents, req.url) /\ handleRpcRequest(nextReq, req)
  \/ \E inv \in inflight, outcome \in Outcomes :
       handleTaskSendResume(inv, outcome)
  \/ Tick

Spec == Init /\ [][Next]_vars

(***************************************************************************)
(* The server whose loadAgents found no agent: this.agents stays {} as the *)
(* constructor left it.  No handler is ever invoked, so the continuation   *)
(* of tasks/send has no step to take.                                      *)
(***************************************************************************)
InitEmpty ==
  /\ agents = << >>
  /\ tasks = << >>
  /\ inflight = {}
  /\ response = << >>
  /\ nextReq = 1
  /\ now = 0
  /\ statusCode = 0

NextEmpty ==
  \/ /\ nextReq <= MaxReq
     /\ \E req \in Requests :
          IsRpcUrl(agents, req.url) /\ handleRpcRequest(nextReq, req)
  \/ \E url \in CardUrls : handleAgentCard(url)
  \/ Tick

SpecEmpty == InitEmpty /\ [][NextEmpty]_vars

(***************************************************************************)
(* Loading and discovery: loadAgents registers what the modules of the     *)
(* agents directory export, one module at a time, and GET requests read    *)
(* the registry.                                                           *)
(***************************************************************************)
\* what the modules of an agents directory may export as agent
AgentModules ==
  {[id |-> "agent://a", name |-> "A", capabilities |-> NoCapabilities,
    authentication |-> << >>, skills |-> << >>, send |-> "function"],
   [id |-> "agent://a", name |-> "second A", capabilities |-> AllFalse,
    authentication |-> << >>, skills |-> << <<"s">> >>, send |-> "function"],
   [id |-> "a", name |-> "plain A",
    capabilities |-> [streaming |-> "true", pushNotifications |-> Missing,
                      stateTransitionHistory |-> Missing],
    authentication |-> <<[schemes |-> <<"bearer">>, credentials |-> "secret"]>>,
    skills |-> << << >> >>, send |-> "function"],
   [id |-> "b", name |-> "B", capabilities |-> AllFalse,
    authentication |-> << >>, skills |-> << <<"s">> >>, send |-> "function"],
   [id |-> "agent://b", name |-> Missing, capabilities |-> AllFalse,
    authentication |-> << >>, skills |-> << >>, send |-> "function"],
   [id |-> "agent://c", name |-> "C", capabilities |-> AllFalse,
    authentication |-> << >>, skills |-> << >>, send |-> Missing]}

\* this.agents[agent.id] = agent: a new key goes last, a present key keeps
\* its place and gets the new value
Put(reg, agent) ==
  IF \E i \in 1..Len(reg) : reg[i].id = agent.id
    THEN [i \in 1..Len(reg) |-> IF reg[i].id = agent.id THEN agent ELSE reg[i]]
    ELSE Append(reg, agent)

\* one round of the loop of loadAgents, for the module that exports agent
loadAgent(agent) ==
  LET loaded == IF ~Falsy(agent.id) /\ agent.send # Missing
                  THEN Put(agents, agent)
                  ELSE agents
  IN
  /\ Len(loaded) <= MaxAgents
  /\ agents' = loaded
  /\ UNCHANGED <<tasks, inflight, response, nextReq, now, statusCode>>

NextLoad ==
  \/ \E agent \in AgentModules : loadAgent(agent)
  \/ \E url \in CardUrls : handleAgentCard(url)

LoadSpec == InitEmpty /\ [][NextLoad]_vars

(***************************************************************************)
(* A conversation: one client that posts to /rpc without X-Agent-Id and    *)
(* sends to, reads and cancels its tasks, for MaxTurns requests.           *)
(***************************************************************************)
ConversationRequests ==
  {[url |-> <<"rpc">>, agentId |-> Missing,
    body |-> [json |-> "object", jsonrpc |-> "2.0", method |-> "tasks/send",
              params |-> [id |-> t, message |-> "hi", sessionId |-> "s1"]]] :
     t \in TaskIds}
  \cup {[url |-> <<"rpc">>, agentId |-> Missing,
         body |-> [json |-> "object", jsonrpc |-> "2.0", method |-> m,
                   params |-> [id |-> t]]] :
         m \in {"tasks/get", "tasks/cancel"}, t \in TaskIds}

NextConversation ==
  \/ /\ nextReq <= MaxTurns
     /\ \E req \in ConversationRequests : handleRpcRequest(nextReq, req)
  \/ \E inv \in inflight, outcome \in Outcomes :
       handleTaskSendResume(inv, outcome)

ConversationSpec == Init /\ [][NextConversation]_vars

(***************************************************************************)
(* The conversation in which every handler returns: each call of a send    *)
(* handler that is in flight settles at some time.                         *)
(***************************************************************************)
\* the calls of agent.handlers.send that a conversation can make
Invocations ==
  {[id |-> k, agent |-> LoadedAgents[1].id,
    params |-> [id |-> t, message |-> "hi", sessionId |-> "s1"]] :
     k \in 1..MaxReq, t \in TaskIds}

NextLive ==
  \/ /\ nextReq <= MaxReq
     /\ \E req \in ConversationRequests : handleRpcRequest(nextReq, req)
  \/ \E inv \in inflight, outcome \in Outcomes :
       handleTaskSendResume(inv, outcome)

HandlersReturn ==
  \A inv \in Invocations :
    WF_vars(\E outcome \in Outcomes : handleTaskSendResume(inv, outcome))

LiveSpec == Init /\ [][NextLive]_vars /\ HandlersReturn

(***************************************************************************)
(* Clients that address their calls to any agent: every URL and every      *)
(* X-Agent-Id with a tasks/send, a tasks/get or a tasks/cancel.            *)
(***************************************************************************)
AddressedBodies ==
  {[json |-> "object", jsonrpc |-> "2.0", method |-> "tasks/send",
    params |-> [id |-> t, message |-> "hi", sessionId |-> "s1"]] :
     t \in TaskIds}
  \cup {[json |-> "object", jsonrpc |-> "2.0", method |-> m,
         params |-> [id |-> t]] :
         m \in {"tasks/get", "tasks/cancel"}, t \in TaskIds}

AddressedRequests ==
  {[url |-> u, agentId |-> h, body |-> b] :
     u \in Urls, h \in Headers, b \in AddressedBodies}

NextAddressed ==
  \/ /\ nextReq <= MaxReq
     /\ \E req \in AddressedRequests : handleRpcRequest(nextReq, req)
  \/ \E inv \in inflight, outcome \in Outcomes :
       handleTaskSendResume(inv, outcome)

AddressedSpec == Init /\ [][NextAddressed]_vars

(***************************************************************************)
(* The dispatch of handleRequest on the method and the URL of a request.   *)
(***************************************************************************)
\* handleRequest that tests the path segments for task, message and
\* conversation
IsRpcPath_segments(reg, path) ==
  \/ path = <<"/", "rpc">>
  \/ \E i \in 1..Len(Segments(path)) :
       Segments(path)[i] \in {"task", "message", "conversation"}
  \/ isAgentEndpoint(reg, Segments(path))

\* url === '/rpc' || url.includes('/task/') || url.includes('/message/') ||
\* url.includes('/conversation/') || this.isAgentEndpoint(url)
IsRpcPath(reg, path) ==
  \/ path = <<"/", "rpc">>
  \/ Includes(path, <<"/", "task", "/">>)
  \/ Includes(path, <<"/", "message", "/">>)
  \/ Includes(path, <<"/", "conversation", "/">>)
  \/ isAgentEndpoint(reg, Segments(path))

\* the test of line 141 for every registry and URL of the model, computed
\* once
RpcPaths == [reg \in Registries |-> {p \in Paths : IsRpcPath(reg, p)}]

\* the requests whose route is examined: no X-Agent-Id, a body that does not
\* parse or a valid tasks/send
RouteBodies ==
  {[json |-> "malformed", jsonrpc |-> Missing, method |-> Missing,
    params |-> NoParams],
   [json |-> "object", jsonrpc |-> "2.0", method |-> "tasks/send",
    params |-> [id |-> "t1", message |-> "hi", sessionId |-> "s1"]]}

\* the empty body of a request that carries none: JSON.parse('') throws
NoBody ==
  [json |-> "malformed", jsonrpc |-> Missing, method |-> Missing,
   params |-> NoParams]

handleRequest(method, path, body) ==
  IF method = "OPTIONS"
    THEN /\ statusCode' = 204
         /\ UNCHANGED <<agents, tasks, inflight, response, nextReq, now>>
  ELSE IF method = "POST" /\ path \in RpcPaths[agents]
    THEN handleRpcRequest(nextReq, [url |-> Segments(path),
                                    agentId |-> Missing, body |-> body])
  ELSE IF method = "GET"
          /\ Includes(path, <<"/", ".well-known", "/", "agent.json">>)
    THEN handleAgentCard(Segments(path))
  ELSE /\ statusCode' = 404
       /\ response' = Returned(method, Segments(path), CardError("Not Found"))
       /\ UNCHANGED <<agents, tasks, inflight, nextReq, now>>

\* a POST of each body to each URL; a GET of each URL, an OPTIONS and a PUT,
\* whose bodies are not read
RouteRequests ==
  {[method |-> "POST", path |-> p, body |-> b] : p \in Paths, b \in RouteBodies}
  \cup {[method |-> "GET", path |-> p, body |-> NoBody] : p \in Paths}
  \cup {[method |-> m, path |-> p, body |-> NoBody] :
         m \in {"OPTIONS", "PUT"}, p \in {<<"/", "rpc">>, <<"/", "nope">>}}

NextRoute ==
  \/ /\ nextReq <= MaxReq
     /\ \E r \in RouteRequests : handleRequest(r.method, r.path, r.body)
  \/ \E inv \in inflight, outcome \in Outcomes :
       handleTaskSendResume(inv, outcome)

RouteSpec == Init /\ [][NextRoute]_vars

TypeOK ==
  /\ DOMAIN tasks \subseteq TaskIds
  /\ \A t \in DOMAIN tasks :
       /\ tasks[t].id = t
       /\ tasks[t].agentId \in AgentIds
       /\ tasks[t].status.state \in States
       /\ tasks[t].status.timestamp \in 0..now
  /\ nextReq \in 1..(MaxReq + 1)
  /\ Len(response) <= 1
  /\ statusCode \in {0, 200, 400, 404, 500}

(***************************************************************************)
(* Vocabulary of the properties.                                           *)
(***************************************************************************)
Terminal(state) == state \in {"completed", "failed", "canceled"}

StateOf(t) == tasks[t].status.state

\* this step returned the response of request nextReq, a call of method
Answers(method) ==
  /\ nextReq' = nextReq + 1
  /\ Len(response') = 1
  /\ response'[1].res.id = nextReq
  /\ response'[1].method = method

IsResult(r) == Len(r.res.result) = 1 /\ Len(r.res.error) = 0

IsError(r, code) ==
  /\ Len(r.res.error) = 1
  /\ Len(r.res.result) = 0
  /\ r.res.error[1].code = code

\* the invocations of the send handler for task t that have not settled
InFlightFor(t) == {inv \in inflight : inv.params.id = t}

(***************************************************************************)
(* C1: once a task is completed, failed or canceled, no step changes its   *)
(* state.                                                                  *)
(***************************************************************************)
TerminalStatesFinal ==
  [][\A t \in DOMAIN tasks :
       Terminal(StateOf(t)) => tasks'[t].status.state = StateOf(t)]_vars

(***************************************************************************)
(* C2: in every task's history every reply comes after the inbound message *)
(* of its exchange; the inbound message of an invocation in flight is      *)
(* already in the history and its reply is not.                            *)
(***************************************************************************)
InboundPrecedesReply ==
  /\ \A t \in DOMAIN tasks :
       \A j \in 1..Len(tasks[t].history) :
         tasks[t].history[j].dir = "reply" =>
           \E i \in 1..(j - 1) :
             /\ tasks[t].history[i].dir = "inbound"
             /\ tasks[t].history[i].exch = tasks[t].history[j].exch
  /\ \A inv \in inflight :
       /\ \E i \in 1..Len(tasks[inv.params.id].history) :
            /\ tasks[inv.params.id].history[i].dir = "inbound"
            /\ tasks[inv.params.id].history[i].exch = inv.id
       /\ \A i \in 1..Len(tasks[inv.params.id].history) :
            tasks[inv.params.id].history[i].dir = "reply" =>
              tasks[inv.params.id].history[i].exch # inv.id

\* a reply was pushed while another send on the same task was in flight
InboundPrecedesReplyWitness ==
  \E t \in DOMAIN tasks :
    /\ InFlightFor(t) # {}
    /\ \E j \in 1..Len(tasks[t].history) : tasks[t].history[j].dir = "reply"

(***************************************************************************)
(* C3: when the handler of an invocation settles on a task that was        *)
(* canceled in the meantime, the task stays canceled.                      *)
(***************************************************************************)
CanceledSurvivesHandler ==
  [][\A inv \in inflight :
       (inv \notin inflight' /\ StateOf(inv.params.id) = "canceled")
         => tasks'[inv.params.id].status.state = "canceled"]_vars

(***************************************************************************)
(* C4: tasks/cancel on a stored task in a terminal state returns -32002    *)
(* and leaves the task's status and history as they were.                  *)
(***************************************************************************)
CancelTerminalRejected ==
  [][\A t \in DOMAIN tasks :
       (/\ Answers("tasks/cancel")
        /\ response'[1].params.id = t
        /\ Terminal(StateOf(t)))
       => /\ IsError(response'[1], -32002)
          /\ tasks'[t].status = tasks[t].status
          /\ tasks'[t].history = tasks[t].history]_vars

CancelTerminalRejectedWitness ==
  /\ Len(response) = 1
  /\ response[1].method = "tasks/cancel"
  /\ IsError(response[1], -32002)
  /\ response[1].params.id \in DOMAIN tasks
  /\ Terminal(StateOf(response[1].params.id))
  /\ tasks[response[1].params.id].status.timestamp < now

(***************************************************************************)
(* C5: tasks/cancel on a stored task that is submitted or working sets it  *)
(* to canceled, keeps its history and owner, and returns the updated       *)
(* record.                                                                 *)
(***************************************************************************)
CancelActiveTask ==
  [][\A t \in DOMAIN tasks :
       (/\ Answers("tasks/cancel")
        /\ response'[1].params.id = t
        /\ StateOf(t) \in {"submitted", "working"})
       => /\ tasks'[t].status.state = "canceled"
          /\ tasks'[t].history = tasks[t].history
          /\ tasks'[t].agentId = tasks[t].agentId
          /\ IsResult(response'[1])
          /\ response'[1].res.result[1].id = t
          /\ response'[1].res.result[1].status.state = "canceled"]_vars

CancelActiveTaskWitness ==
  /\ Len(response) = 1
  /\ response[1].method = "tasks/cancel"
  /\ IsResult(response[1])
  /\ StateOf(response[1].params.id) = "canceled"
  /\ Len(tasks[response[1].params.id].history) > 0

(***************************************************************************)
(* C6: tasks/cancel for an id that is not stored returns -32001 and leaves *)
(* the store as it was: no record created, none changed.                   *)
(***************************************************************************)
CancelUnknownTask ==
  [][(/\ Answers("tasks/cancel")
      /\ ~Falsy(response'[1].params.id)
      /\ response'[1].params.id \notin DOMAIN tasks)
     => /\ IsError(response'[1], -32001)
        /\ tasks' = tasks]_vars

CancelUnknownTaskWitness ==
  /\ Len(response) = 1
  /\ response[1].method = "tasks/cancel"
  /\ IsError(response[1], -32001)
  /\ response[1].params.id \in TaskIds \ DOMAIN tasks
  /\ DOMAIN tasks # {}

(***************************************************************************)
(* C7: tasks/get for an id that is not stored returns -32001 and the       *)
(* number of stored tasks stays the same.                                  *)
(***************************************************************************)
GetUnknownTask ==
  [][(/\ Answers("tasks/get")
      /\ ~Falsy(response'[1].params.id)
      /\ response'[1].params.id \notin DOMAIN tasks)
     => /\ IsError(response'[1], -32001)
        /\ Cardinality(DOMAIN tasks') = Cardinality(DOMAIN tasks)]_vars

GetUnknownTaskWitness ==
  /\ Len(response) = 1
  /\ response[1].method = "tasks/get"
  /\ IsError(response[1], -32001)
  /\ response[1].params.id \in TaskIds \ DOMAIN tasks

(***************************************************************************)
(* C8: tasks/get for a stored id returns the record's id, status and       *)
(* history as stored and changes neither the store nor the invocations in  *)
(* flight.                                                                 *)
(***************************************************************************)
GetReadOnly ==
  [][\A t \in DOMAIN tasks :
       (Answers("tasks/get") /\ response'[1].params.id = t)
       => /\ IsResult(response'[1])
          /\ response'[1].res.result[1].id = t
          /\ response'[1].res.result[1].status = tasks[t].status
          /\ response'[1].res.result[1].history = tasks[t].history
          /\ tasks' = tasks
          /\ inflight' = inflight]_vars

GetReadOnlyWitness ==
  /\ Len(response) = 1
  /\ response[1].method = "tasks/get"
  /\ IsResult(response[1])
  /\ Len(response[1].res.result[1].history) > 0

(***************************************************************************)
(* C9: a tasks/send result carries the task id of its params; a valid      *)
(* send for an unseen id adds exactly that one record, and a valid send    *)
(* for a stored id adds none and makes that record's history longer.       *)
(***************************************************************************)
SendReusesRecord ==
  [][/\ (Len(response') = 1 /\ response'[1].method = "tasks/send"
           /\ IsResult(response'[1]))
        => response'[1].res.result[1].id = response'[1].params.id
     /\ \A inv \in inflight' \ inflight :
          IF inv.params.id \in DOMAIN tasks
            THEN /\ DOMAIN tasks' = DOMAIN tasks
                 /\ Len(tasks'[inv.params.id].history)
                      > Len(tasks[inv.params.id].history)
            ELSE /\ DOMAIN tasks' = DOMAIN tasks \cup {inv.params.id}
                 /\ Cardinality(DOMAIN tasks')
                      = Cardinality(DOMAIN tasks) + 1]_vars

\* a second send reused the record of the first, and a send returned a result
SendReusesRecordWitness ==
  /\ Len(response) = 1
  /\ response[1].method = "tasks/send"
  /\ IsResult(response[1])
  /\ \E i, j \in 1..Len(tasks[response[1].params.id].history) :
       /\ tasks[response[1].params.id].history[i].dir = "inbound"
       /\ tasks[response[1].params.id].history[j].dir = "inbound"
       /\ tasks[response[1].params.id].history[i].exch
            # tasks[response[1].params.id].history[j].exch

(***************************************************************************)
(* C10: a stored task stays stored and keeps the owning agent it was       *)
(* created with, whatever step is taken.                                   *)
(***************************************************************************)
OwnerFixed ==
  [][\A t \in DOMAIN tasks :
       /\ t \in DOMAIN tasks'
       /\ tasks'[t].agentId = tasks[t].agentId]_vars

\* a send resolved to another agent than the owner has acted on the task
OwnerFixedWitness ==
  \E inv \in inflight : tasks[inv.params.id].agentId # inv.agent

\* the task of invocation inv
TaskOf(inv) == inv.params.id

\* the last HTTP response carries a JsonRpcResponse
IsJsonRpc(r) == r.res.jsonrpc = "2.0"

(***************************************************************************)
(* C11: when the handler returns a reply message, the continuation sets    *)
(* the task to completed, leaves the reply as the last entry of the        *)
(* history and returns a result with the task id, state completed, the     *)
(* full history and one artifact whose first part has type text.           *)
(***************************************************************************)
ReplyCompletesTask ==
  [][\A inv \in inflight :
       (\/ handleTaskSendResume(inv, "reply")
        \/ handleTaskSendResume(inv, "replyEmpty"))
       => /\ tasks'[TaskOf(inv)].status.state = "completed"
          /\ tasks'[TaskOf(inv)].history[Len(tasks'[TaskOf(inv)].history)].dir
               = "reply"
          /\ tasks'[TaskOf(inv)].history[Len(tasks'[TaskOf(inv)].history)].exch
               = inv.id
          /\ IsResult(response'[1])
          /\ response'[1].res.result[1].id = TaskOf(inv)
          /\ response'[1].res.result[1].status.state = "completed"
          /\ response'[1].res.result[1].history = tasks'[TaskOf(inv)].history
          /\ Len(response'[1].res.result[1].artifacts) = 1
          /\ response'[1].res.result[1].artifacts[1].parts[1].type = "text"]_vars

(***************************************************************************)
(* C12: when the handler returns an error value, the continuation sets the *)
(* task to failed and returns an error with code -32603 whose message is   *)
(* the handler's error text, and no result.                                *)
(***************************************************************************)
ErrorValueFailsTask ==
  [][\A inv \in inflight :
       handleTaskSendResume(inv, "error")
       => /\ tasks'[TaskOf(inv)].status.state = "failed"
          /\ IsError(response'[1], -32603)
          /\ response'[1].res.error[1].message = "response.error"
          /\ response'[1].res.id = inv.id]_vars

ErrorValueFailsTaskWitness ==
  /\ Len(response) = 1
  /\ response[1].method = "tasks/send"
  /\ IsError(response[1], -32603)
  /\ response[1].res.error[1].message = "response.error"
  /\ StateOf(response[1].params.id) = "failed"

(***************************************************************************)
(* C13: when the handler throws or rejects, the continuation sets the task *)
(* to failed and returns an error with code -32603 in a JSON-RPC response  *)
(* with status 200; nothing is left to handleRequest's catch.              *)
(***************************************************************************)
ThrowContained ==
  [][\A inv \in inflight :
       (\/ handleTaskSendResume(inv, "throw")
        \/ handleTaskSendResume(inv, "throwNull"))
       => /\ tasks'[TaskOf(inv)].status.state = "failed"
          /\ IsError(response'[1], -32603)
          /\ IsJsonRpc(response'[1])
          /\ response'[1].res.id = inv.id
          /\ statusCode' = 200]_vars

(***************************************************************************)
(* C14: the response to a request carries the id of that request, null     *)
(* when the body could not be parsed, and exactly one of result and error. *)
(***************************************************************************)
ResponseEchoesId ==
  [][response' # response
       => /\ Len(response'[1].res.result) + Len(response'[1].res.error) = 1
          /\ \A req \in Requests :
               (req.body.json = "malformed" /\ handleRpcRequest(nextReq, req))
               => response'[1].res.id = 0
          /\ nextReq' # nextReq
               => \/ response'[1].res.id = nextReq
                  \/ \E req \in Requests :
                       /\ req.body.json = "malformed"
                       /\ handleRpcRequest(nextReq, req)
          /\ \A inv \in inflight \ inflight' : response'[1].res.id = inv.id
    ]_vars

(***************************************************************************)
(* C15: an RPC POST is answered with status 400 when the body does not     *)
(* parse or the envelope is invalid, and with status 200 otherwise.        *)
(***************************************************************************)
RpcStatusCodes ==
  [][/\ \A req \in Requests :
          (nextReq' # nextReq /\ response' # response
           /\ handleRpcRequest(nextReq, req))
          => statusCode' =
               (IF \/ req.body.json = "malformed"
                   \/ req.body.jsonrpc # "2.0"
                   \/ req.body.method = Missing
                  THEN 400 ELSE 200)
     /\ \A inv \in inflight : inv \notin inflight' => statusCode' = 200
    ]_vars

(***************************************************************************)
(* C16: a body that parses and whose jsonrpc is not "2.0" or whose method  *)
(* is absent is answered with -32600, status 400 and the request's id; no  *)
(* task changes and no handler is invoked.                                 *)
(***************************************************************************)
InvalidEnvelopeRejected ==
  [][nextReq' # nextReq =>
     \A req \in Requests :
        (/\ req.body.json # "malformed"
         /\ (req.body.jsonrpc # "2.0" \/ req.body.method = Missing)
         /\ handleRpcRequest(nextReq, req))
        => /\ IsError(response'[1], -32600)
           /\ statusCode' = 400
           /\ req.body.json = "object" => response'[1].res.id = nextReq
           /\ tasks' = tasks
           /\ inflight' = inflight]_vars

(***************************************************************************)
(* C17: a body that is not JSON is answered with status 400 and an error   *)
(* -32700 with id null; no task changes and no handler is invoked.         *)
(***************************************************************************)
MalformedBodyRejected ==
  [][nextReq' # nextReq =>
     \A req \in Requests :
          (req.body.json = "malformed" /\ handleRpcRequest(nextReq, req))
          => /\ IsError(response'[1], -32700)
             /\ IsJsonRpc(response'[1])
             /\ response'[1].res.id = 0
             /\ statusCode' = 400
             /\ tasks' = tasks
             /\ inflight' = inflight]_vars

\* a malformed body arrived while a task was stored and a handler pending
MalformedBodyRejectedWitness ==
  /\ Len(response) = 1
  /\ IsError(response[1], -32700)
  /\ statusCode = 400
  /\ inflight # {}

SendWithoutParamsRejected ==
  [][nextReq' # nextReq =>
     \A agent \in AgentIds, params \in SendParams :
          (/\ (params.id = Missing \/ params.message = Missing)
           /\ handleTaskSend(nextReq, agent, params))
          => /\ IsError(response'[1], -32602)
             /\ response'[1].res.id = nextReq
             /\ tasks' = tasks
             /\ inflight' = inflight]_vars

\* a send with an id and no message was refused while that task was stored
SendWithoutParamsRejectedWitness ==
  /\ Len(response) = 1
  /\ response[1].method = "tasks/send"
  /\ IsError(response[1], -32602)
  /\ response[1].params.message = Missing
  /\ response[1].params.id \in DOMAIN tasks

(***************************************************************************)
(* C20: an identifier in the first path segment or in X-Agent-Id that      *)
(* names a registered agent, with or without the scheme, selects that      *)
(* agent; the first-registered agent is the target only when no            *)
(* identifier was supplied.                                                *)
(***************************************************************************)
Names(x, agent) == x = agent \/ x = StripScheme(agent)

NamedAgents(req) ==
  {a \in AgentIds :
     \/ Len(req.url) > 0 /\ Names(req.url[1], a)
     \/ req.agentId # Missing /\ Names(req.agentId, a)}

AgentPrecedence ==
  [][\A req \in Requests :
       (inflight' # inflight /\ handleRpcRequest(nextReq, req))
       => \A inv \in inflight' \ inflight :
            /\ NamedAgents(req) # {} => inv.agent \in NamedAgents(req)
            /\ (inv.agent = agents[1].id
                /\ agents[1].id \notin NamedAgents(req))
                 => req.agentId = Missing]_vars

(***************************************************************************)
(* C21: a request whose X-Agent-Id names no registered agent, on a URL     *)
(* that names none either, is answered with an agent-not-found error       *)
(* (-32601); no handler is invoked and no task is created or changed.      *)
(***************************************************************************)
UnknownHeaderRejected ==
  [][nextReq' # nextReq =>
     \A req \in Requests :
        (/\ req.agentId # Missing
         /\ \A a \in AgentIds : ~Names(req.agentId, a)
         /\ ~isAgentEndpoint(agents, req.url)
         /\ ValidEnvelope(req.body)
         /\ handleRpcRequest(nextReq, req))
        => /\ tasks' = tasks
           /\ inflight' = inflight
           /\ Len(response') = 1
           /\ IsError(response'[1], -32601)
           /\ response'[1].res.id = nextReq]_vars

(***************************************************************************)
(* C22: with an empty registry every RPC call with a valid envelope, with  *)
(* or without X-Agent-Id, is answered with an error -32601 and the task    *)
(* store stays empty.                                                      *)
(***************************************************************************)
EmptyRegistryRejects ==
  [][(agents = << >> /\ nextReq' # nextReq) =>
     \A req \in Requests :
        (ValidEnvelope(req.body) /\ handleRpcRequest(nextReq, req))
        => /\ tasks' = << >>
           /\ inflight' = {}
           /\ Len(response') = 1
           /\ IsError(response'[1], -32601)
           /\ response'[1].res.id = nextReq]_vars

\* a tasks/send with an X-Agent-Id header was refused by the empty registry
EmptyRegistryRejectsWitness ==
  /\ agents = << >>
  /\ Len(response) = 1
  /\ response[1].method = "tasks/send"
  /\ ~Falsy(response[1].params.id)
  /\ ~Falsy(response[1].params.message)
  /\ IsError(response[1], -32601)
  /\ response[1].res.error[1].message = "Agent not found"

\* the registered agents whose identifier without scheme is segment
AgentsAt(segment) ==
  {i \in 1..Len(agents) : StripScheme(agents[i].id) = segment}

(***************************************************************************)
(* C23: GET /{segment}/.well-known/agent.json is answered with status 200  *)
(* and the card of a registered agent whose identifier without scheme is   *)
(* the segment, registered with or without the scheme, and with 404 when   *)
(* there is none.                                                          *)
(***************************************************************************)
CardBySegment ==
  [][\A url \in CardUrls :
       (/\ Len(url) = 3
        /\ url[2] = ".well-known"
        /\ handleAgentCard(url))
       => IF AgentsAt(url[1]) = {}
            THEN statusCode' = 404 /\ response'[1].res.card = << >>
            ELSE /\ statusCode' = 200
                 /\ Len(response'[1].res.card) = 1
                 /\ \E i \in AgentsAt(url[1]) :
                      response'[1].res.card[1].name = agents[i].name]_vars

\* the three capability flags of the card are booleans
FlagsAreBooleans(card) ==
  /\ card.capabilities.streaming \in {"true", "false"}
  /\ card.capabilities.pushNotifications \in {"true", "false"}
  /\ card.capabilities.stateTransitionHistory \in {"true", "false"}

\* a flag the agent does not declare is false in the card
UndeclaredAreFalse(agent, card) ==
  /\ agent.capabilities.streaming = Missing
       => card.capabilities.streaming = "false"
  /\ agent.capabilities.pushNotifications = Missing
       => card.capabilities.pushNotifications = "false"
  /\ agent.capabilities.stateTransitionHistory = Missing
       => card.capabilities.stateTransitionHistory = "false"

(***************************************************************************)
(* C24: a card that is served has a name, the three capability flags as    *)
(* booleans (false for a flag its agent does not declare), skills as a     *)
(* sequence (empty when the agent declares none) and, when the agent       *)
(* declares authentication, credentials null.                              *)
(***************************************************************************)
CardShape ==
  [][\A url \in CardUrls :
       (handleAgentCard(url) /\ statusCode' = 200)
       => /\ Len(response'[1].res.card) = 1
          /\ response'[1].res.card[1].name # Missing
          /\ FlagsAreBooleans(response'[1].res.card[1])
          /\ \E i \in 1..Len(agents) :
               /\ agents[i].name = response'[1].res.card[1].name
               /\ UndeclaredAreFalse(agents[i], response'[1].res.card[1])
               /\ agents[i].skills = << >>
                    => response'[1].res.card[1].skills = << >>
               /\ agents[i].skills # << >>
                    => response'[1].res.card[1].skills = agents[i].skills[1]
               /\ agents[i].authentication # << >>
                    => /\ Len(response'[1].res.card[1].authentication) = 1
                       /\ response'[1].res.card[1].authentication[1].credentials
                            = "null"]_vars

\* the step neither creates, removes nor changes the record of a task other
\* than taskId
OthersUntouched(taskId) ==
  /\ DOMAIN tasks' \ {taskId} = DOMAIN tasks \ {taskId}
  /\ \A t \in DOMAIN tasks \ {taskId} : tasks'[t] = tasks[t]

(***************************************************************************)
(* C25: a tasks/send on task A (the call and the settling of its handler   *)
(* with a reply, an error value or a throw), a tasks/get or a tasks/cancel *)
(* on A leaves the record of every other task and the registry as they     *)
(* were, whatever is in flight for other tasks.                            *)
(***************************************************************************)
TaskFrame ==
  [][/\ agents' = agents
     /\ \A inv \in inflight, outcome \in Outcomes :
          handleTaskSendResume(inv, outcome) => OthersUntouched(TaskOf(inv))
     /\ nextReq' # nextReq =>
          /\ \A params \in GetParams :
               (handleTaskGet(nextReq, params) \/ handleTaskCancel(nextReq, params))
               => OthersUntouched(params.id)
          /\ \A agent \in AgentIds, params \in SendParams :
               handleTaskSend(nextReq, agent, params)
               => OthersUntouched(params.id)]_vars

\* the handler of one task threw while another task, with a call in flight,
\* was stored
TaskFrameWitness ==
  /\ Len(response) = 1
  /\ response[1].method = "tasks/send"
  /\ \E a \in DOMAIN tasks, b \in DOMAIN tasks :
       /\ a # b
       /\ response[1].params.id = a
       /\ StateOf(a) = "failed"
       /\ StateOf(b) = "working"
       /\ InFlightFor(b) # {}

(***************************************************************************)
(* C26: registering an agent whose id is already in the registry fails and *)
(* leaves the descriptor registered before in place.                       *)
(***************************************************************************)
DuplicateRejected ==
  [][\A agent \in AgentModules :
       (agent.id \in AgentIds /\ loadAgent(agent)) => agents' = agents]_vars

(***************************************************************************)
(* C27: tasks/send calls on one task are not serialized.  While a call is  *)
(* in flight its inbound message is in the history and its reply is not,   *)
(* and its handler can settle next whatever other calls are in flight for  *)
(* the same task: with two calls in flight both inbound messages precede   *)
(* both replies, and either reply can be pushed first.                     *)
(***************************************************************************)
SendsInterleave ==
  \A inv \in inflight :
    /\ TaskOf(inv) \in DOMAIN tasks
    /\ LET h == tasks[TaskOf(inv)].history IN
       /\ \E k \in 1..Len(h) : h[k] = Inbound(inv.id, inv.params.message)
       /\ \A k \in 1..Len(h) : ~(h[k].dir = "reply" /\ h[k].exch = inv.id)
    /\ ENABLED handleTaskSendResume(inv, "reply")

\* two calls on one task: both inbound messages were pushed before either
\* reply, and the second call was answered first
SendsInterleaveWitness ==
  \E t \in DOMAIN tasks :
    LET h == tasks[t].history IN
    /\ Len(h) = 4
    /\ h[1].dir = "inbound" /\ h[2].dir = "inbound"
    /\ h[3].dir = "reply" /\ h[3].exch = h[2].exch
    /\ h[4].dir = "reply" /\ h[4].exch = h[1].exch
    /\ h[1].exch < h[2].exch

(***************************************************************************)
(* C28: a valid tasks/send for a stored task, whatever its state           *)
(* (completed, failed and canceled included), sets the state to working,   *)
(* pushes the inbound message at the end of the same history and invokes   *)
(* the handler for a new exchange.                                         *)
(***************************************************************************)
ResendReenters ==
  [][nextReq' # nextReq =>
     \A agent \in AgentIds, params \in SendParams :
       (/\ params.id \in DOMAIN tasks
        /\ ~Falsy(params.message)
        /\ handleTaskSend(nextReq, agent, params))
       => /\ tasks'[params.id].status.state = "working"
          /\ tasks'[params.id].history
               = Append(tasks[params.id].history,
                        Inbound(nextReq, params.message))
          /\ \E inv \in inflight' \ inflight :
               inv.id = nextReq /\ inv.params = params]_vars

\* a task was sent to, canceled and sent to again: the cancel answered last,
\* the task is working and the newest history entry is an inbound message
ResendReentersWitness ==
  /\ Len(response) = 1
  /\ response[1].method = "tasks/cancel"
  /\ IsResult(response[1])
  /\ LET t == response[1].params.id IN
       /\ t \in DOMAIN tasks
       /\ StateOf(t) = "working"
       /\ tasks[t].history[Len(tasks[t].history)].dir = "inbound"
       /\ tasks[t].history[Len(tasks[t].history)].exch = nextReq - 1

(***************************************************************************)
(* C29: the history of a task is append-only.  Every step leaves each      *)
(* stored task stored, with the history it had as a prefix of the history  *)
(* it has afterwards; hence the history in any later state extends the     *)
(* history in any earlier one.                                             *)
(***************************************************************************)
HistoryAppendOnly ==
  [][\A t \in DOMAIN tasks :
       /\ t \in DOMAIN tasks'
       /\ Len(tasks'[t].history) >= Len(tasks[t].history)
       /\ SubSeq(tasks'[t].history, 1, Len(tasks[t].history))
            = tasks[t].history]_vars

\* a task that was sent to, answered, canceled or read, and sent to again:
\* its history holds an inbound message, a reply and a later inbound message
HistoryAppendOnlyWitness ==
  \E t \in DOMAIN tasks :
    LET h == tasks[t].history IN
    /\ Len(h) >= 3
    /\ h[1].dir = "inbound" /\ h[2].dir = "reply" /\ h[3].dir = "inbound"
    /\ h[3].exch = 3

\* h is inbound, reply, inbound, reply, ...: each reply answers the inbound
\* message before it
Alternating(h) ==
  /\ Len(h) % 2 = 0
  /\ \A k \in 1..Len(h) :
       IF k % 2 = 1
         THEN h[k].dir = "inbound"
         ELSE h[k].dir = "reply" /\ h[k].exch = h[k - 1].exch

\* task t after n >= 0 sends, each answered before the next: not stored, or
\* completed with 2n alternating history entries and no call in flight
Answered(store, calls, t) ==
  \/ t \notin DOMAIN store /\ \A inv \in calls : inv.params.id # t
  \/ /\ t \in DOMAIN store
     /\ \A inv \in calls : inv.params.id # t
     /\ store[t].status.state = "completed"
     /\ Alternating(store[t].history)

\* task t while the one send that follows n answered sends waits for its
\* handler
Asked(store, calls, t) ==
  /\ t \in DOMAIN store
  /\ Len(store[t].history) % 2 = 1
  /\ Alternating(SubSeq(store[t].history, 1, Len(store[t].history) - 1))
  /\ \E inv \in calls :
       /\ inv.params.id = t
       /\ \A other \in calls : other.params.id = t => other = inv
       /\ store[t].history[Len(store[t].history)]
            = Inbound(inv.id, inv.params.message)

HistoryLen(store, t) == IF t \in DOMAIN store THEN Len(store[t].history) ELSE 0

(***************************************************************************)
(* C30: tasks/send is not idempotent.  A send on a task whose n earlier    *)
(* sends were all answered pushes one more inbound message, and the reply  *)
(* of its handler, with nothing else done on the task meanwhile, leaves    *)
(* the task completed with 2(n+1) history entries, inbound and reply       *)
(* alternating; a tasks/get after one answered send returns that state and *)
(* a history of length 2.                                                  *)
(***************************************************************************)
SendNotIdempotent ==
  [][\A t \in TaskIds :
       /\ \A inv \in inflight, outcome \in {"reply", "replyEmpty"} :
            (/\ inv.params.id = t
             /\ Asked(tasks, inflight, t)
             /\ handleTaskSendResume(inv, outcome))
            => /\ Answered(tasks', inflight', t)
               /\ HistoryLen(tasks', t) = HistoryLen(tasks, t) + 1
       /\ nextReq' # nextReq =>
            /\ \A agent \in AgentIds, params \in SendParams :
                 (/\ params.id = t
                  /\ ~Falsy(params.message)
                  /\ Answered(tasks, inflight, t)
                  /\ handleTaskSend(nextReq, agent, params))
                 => /\ Asked(tasks', inflight', t)
                    /\ HistoryLen(tasks', t) = HistoryLen(tasks, t) + 1
            /\ (/\ Answered(tasks, inflight, t)
                /\ HistoryLen(tasks, t) = 2
                /\ handleTaskGet(nextReq, [id |-> t]))
               => /\ IsResult(response'[1])
                  /\ Len(response'[1].res.result[1].history) = 2
                  /\ response'[1].res.result[1].status.state = "completed"]_vars

\* the artifacts property of the task object r, << >> when r has none
Artifacts(r) == IF "artifacts" \in DOMAIN r THEN r.artifacts ELSE << >>

(***************************************************************************)
(* C31: a tasks/get that follows a tasks/send result for the same task     *)
(* returns the artifacts that the send result held: the stored record      *)
(* carries them.                                                           *)
(***************************************************************************)
ArtifactsStored ==
  [][nextReq' # nextReq =>
     \A t \in DOMAIN tasks :
       (/\ Len(response) = 1
        /\ response[1].method = "tasks/send"
        /\ IsResult(response[1])
        /\ response[1].params.id = t
        /\ handleTaskGet(nextReq, [id |-> t]))
       => /\ IsResult(response'[1])
          /\ Artifacts(response'[1].res.result[1])
               = Artifacts(response[1].res.result[1])]_vars

\* the URLs the routing rule names: /rpc itself, a URL that contains
\* /task/, /message/ or /conversation/, and a URL whose first segment is
\* the identifier of a registered agent without its scheme
RpcShaped(reg, path) ==
  \/ path = <<"/", "rpc">>
  \/ \E part \in {"task", "message", "conversation"} :
       Includes(path, <<"/", part, "/">>)
  \/ /\ Len(Segments(path)) > 0
     /\ \E i \in 1..Len(reg) :
          StripScheme(reg[i].id) = Segments(path)[1]

\* the URLs of the model that are RpcShaped, for each registry
Shaped == [reg \in Registries |-> {p \in Paths : RpcShaped(reg, p)}]

(***************************************************************************)
(* C32: a POST is handled as an RPC call exactly when its URL is /rpc,     *)
(* contains /task/, /message/ or /conversation/, or starts with the        *)
(* identifier of a registered agent; every other POST gets HTTP 404 and    *)
(* changes no task; an OPTIONS request gets 204 and reaches no handler.    *)
(***************************************************************************)
RoutedAsClaimed ==
  [][\A r \in RouteRequests :
       LET method == r.method
           path == r.path
           body == r.body
       IN
       (method \in {"POST", "OPTIONS"} /\ handleRequest(method, path, body)) =>
         /\ method = "OPTIONS" =>
              /\ statusCode' = 204
              /\ UNCHANGED <<tasks, inflight, response, nextReq>>
         /\ (method = "POST" /\ path \in Shaped[agents]) =>
              handleRpcRequest(nextReq, [url |-> Segments(path),
                                         agentId |-> Missing, body |-> body])
         /\ (method = "POST" /\ path \notin Shaped[agents]) =>
              /\ statusCode' = 404
              /\ UNCHANGED <<tasks, inflight, nextReq>>]_vars

\* a POST was answered with 404 while a task was stored with its handler
\* running
RoutedAsClaimedWitness ==
  /\ statusCode = 404
  /\ Len(response) = 1
  /\ response[1].method = "POST"
  /\ \E t \in DOMAIN tasks : InFlightFor(t) # {}

(***************************************************************************)
(* C33: when a tasks/send call returns the error -32603, whatever its      *)
(* handler did (a reply with any number of parts, an error value, a        *)
(* throw), the call has pushed its inbound message and no reply, and the   *)
(* state of the task is failed.                                            *)
(***************************************************************************)
FailedSendLeavesNoReply ==
  [][\A inv \in inflight, outcome \in Outcomes :
       (/\ handleTaskSendResume(inv, outcome)
        /\ IsError(response'[1], -32603))
       => LET h == tasks'[TaskOf(inv)].history IN
          /\ tasks'[TaskOf(inv)].status.state = "failed"
          /\ \E k \in 1..Len(h) : h[k] = Inbound(inv.id, inv.params.message)
          /\ \A k \in 1..Len(h) :
               ~(h[k].dir = "reply" /\ h[k].exch = inv.id)]_vars

(***************************************************************************)
(* C34: a task whose state is working has a call of a send handler in      *)
(* flight: only the start of a call sets working, and the end of every     *)
(* call sets completed or failed.                                          *)
(***************************************************************************)
WorkingHasInvocation ==
  /\ \A t \in DOMAIN tasks : StateOf(t) = "working" => InFlightFor(t) # {}
  /\ \A inv \in inflight : TaskOf(inv) \in DOMAIN tasks

\* a task is working for its second call after its first call was answered
WorkingHasInvocationWitness ==
  \E t \in DOMAIN tasks :
    /\ StateOf(t) = "working"
    /\ InFlightFor(t) # {}
    /\ \E k \in 1..Len(tasks[t].history) : tasks[t].history[k].dir = "reply"

(***************************************************************************)
(* C35: the state submitted is never seen by another request.  A record is *)
(* created, set to working and given its inbound message in one step, so   *)
(* no stored task is submitted between two steps: no tasks/get returns     *)
(* submitted and no tasks/cancel acts on a submitted task.                 *)
(***************************************************************************)
SubmittedNeverObserved ==
  /\ \A t \in DOMAIN tasks :
       StateOf(t) # "submitted" /\ Len(tasks[t].history) >= 1
  /\ (Len(response) = 1 /\ response[1].method \in {"tasks/get", "tasks/cancel"}
        /\ IsResult(response[1]))
      => response[1].res.result[1].status.state # "submitted"

\* a tasks/get read a task that its first send had just created: working,
\* with the inbound message as its only history entry
SubmittedNeverObservedWitness ==
  /\ Len(response) = 1
  /\ response[1].method = "tasks/get"
  /\ IsResult(response[1])
  /\ response[1].res.result[1].status.state = "working"
  /\ Len(response[1].res.result[1].history) = 1

(***************************************************************************)
(* C36: concurrent tasks/send calls for one unseen task id create one      *)
(* record and lose no inbound message: the record that the first call      *)
(* created is the one that stays, and the inbound message of every call    *)
(* in flight is in its history exactly once.                               *)
(***************************************************************************)
NoInboundLost ==
  \A t \in TaskIds :
    /\ InFlightFor(t) # {} => t \in DOMAIN tasks
    /\ t \in DOMAIN tasks =>
         LET h == tasks[t].history IN
         /\ tasks[t].id = t
         /\ Len(h) >= 1
         /\ h[1].dir = "inbound"
         /\ \A k \in 2..Len(h) : h[k].exch >= h[1].exch
         /\ \A inv \in InFlightFor(t) :
              Cardinality({k \in 1..Len(h) :
                             h[k] = Inbound(inv.id, inv.params.message)}) = 1
         /\ Cardinality({k \in 1..Len(h) : h[k].dir = "inbound"})
              >= Cardinality(InFlightFor(t))

\* three calls for one task id are in flight and the record holds their
\* three inbound messages
NoInboundLostWitness ==
  \E t \in DOMAIN tasks :
    /\ Cardinality(InFlightFor(t)) = 3
    /\ Len(tasks[t].history) = 3
    /\ \A k \in 1..3 : tasks[t].history[k].dir = "inbound"

(***************************************************************************)
(* C37: a tasks/send on a stored task calls the handler of the agent that  *)
(* the request resolves to, not the handler of the agent that owns the     *)
(* task; the reply of that agent is pushed onto the history and the        *)
(* owning agent of the record stays as it was.                             *)
(***************************************************************************)
SendUsesResolvedAgent ==
  [][/\ \A inv \in inflight \ inflight' :
          handleTaskSendResume(inv, "reply")
          => LET h == tasks'[TaskOf(inv)].history IN
             /\ h[Len(h)].dir = "reply"
             /\ h[Len(h)].from = inv.agent
             /\ tasks'[TaskOf(inv)].agentId = tasks[TaskOf(inv)].agentId
     /\ nextReq' # nextReq =>
          \A req \in Requests :
            (/\ req.body.method = "tasks/send"
             /\ req.body.jsonrpc = "2.0"
             /\ req.body.params.id \in DOMAIN tasks
             /\ ~Falsy(req.body.params.message)
             /\ tasks'[req.body.params.id] # tasks[req.body.params.id]
             /\ handleRpcRequest(nextReq, req))
            => /\ \E inv \in inflight' \ inflight :
                    /\ inv.id = nextReq
                    /\ inv.agent = Resolution[agents][req.url, req.agentId].agent
               /\ tasks'[req.body.params.id].agentId
                    = tasks[req.body.params.id].agentId]_vars

\* the history of a task holds the reply of an agent that does not own it
SendUsesResolvedAgentWitness ==
  \E t \in DOMAIN tasks :
    \E k \in 1..Len(tasks[t].history) :
      /\ tasks[t].history[k].dir = "reply"
      /\ tasks[t].history[k].from # tasks[t].agentId

\* the tasks/get and tasks/cancel bodies
ReadOrCancel == {b \in AddressedBodies : b.method # "tasks/send"}

(***************************************************************************)
(* C38: with a registry that is not empty, what a tasks/get or a           *)
(* tasks/cancel returns and does to the store depends on the task id and   *)
(* the store only: the step taken for a call posted to /rpc without        *)
(* X-Agent-Id is the step taken for the same call under every other URL    *)
(* and header, so a call addressed to one agent reads or cancels the task  *)
(* of another.                                                             *)
(***************************************************************************)
AddressIrrelevant ==
  [][nextReq' # nextReq =>
     \A body \in ReadOrCancel, u \in Urls, h \in Headers :
       handleRpcRequest(nextReq, [url |-> <<"rpc">>, agentId |-> Missing,
                                  body |-> body])
       <=> handleRpcRequest(nextReq, [url |-> u, agentId |-> h,
                                      body |-> body])]_vars

\* a tasks/cancel canceled a task that agent://time owns, and the same step
\* is taken for a cancel posted to /rpc, which resolves to agent://hello
AddressIrrelevantWitness ==
  /\ Len(response) = 1
  /\ response[1].method = "tasks/cancel"
  /\ IsResult(response[1])
  /\ tasks[response[1].params.id].agentId = "agent://time"
  /\ StateOf(response[1].params.id) = "canceled"
  /\ Resolution[agents][<<"rpc">>, Missing].agent = "agent://hello"

(***************************************************************************)
(* C39: when every handler call returns, every accepted tasks/send gets    *)
(* its response, and a task with no call in flight is completed, failed or *)
(* canceled; a task leaves working only when a call for it ends or a       *)
(* tasks/cancel cancels it, so a handler that never returns keeps its task *)
(* working.                                                                *)
(***************************************************************************)
SendsTerminate ==
  /\ [](\A t \in DOMAIN tasks : InFlightFor(t) = {} => Terminal(StateOf(t)))
  /\ [][\A t \in DOMAIN tasks :
          (StateOf(t) = "working" /\ tasks'[t].status.state # "working")
          => \/ InFlightFor(t) \ inflight' # {}
             \/ /\ tasks'[t].status.state = "canceled"
                /\ response'[1].method = "tasks/cancel"
                /\ response'[1].params.id = t]_vars
  /\ \A inv \in Invocations :
       (inv \in inflight)
       ~> (/\ inv \notin inflight
           /\ TaskOf(inv) \in DOMAIN tasks
           /\ Terminal(StateOf(TaskOf(inv))))

\* the last call of a conversation was answered: nothing is in flight and a
\* task that every call was made for is completed
SendsTerminateWitness ==
  /\ inflight = {}
  /\ nextReq > MaxReq
  /\ \E t \in DOMAIN tasks :
       /\ StateOf(t) = "completed"
       /\ Len(tasks[t].history) = 2 * MaxReq

====
